---- MODULE Spec2Model ----
(***************************************************************************)
(* A model of the Timeline component (src/src/components/Timeline.js):     *)
(* the greedy lane assignment, the drag state machine driven by the        *)
(* document-level mouse listeners, the inline rename and the zoom control, *)
(* together with React's render / effect cycle as far as the component's   *)
(* closures depend on it.                                                  *)
(*                                                                         *)
(* Dates.  An item's start and end are 'YYYY-MM-DD' strings; the model     *)
(* writes such a string as its day number (an integer).  new Date(string)  *)
(* reads a date-only string as midnight UTC, Date.prototype.setDate and    *)
(* getDate work in the local time zone of the browser, and toISOString     *)
(* prints in UTC.  Time values are kept in hours.  The time zone of the    *)
(* browser is part of the environment (variable tz).                       *)
(***************************************************************************)
EXTENDS Integers, Sequences, FiniteSets

VARIABLES
    tz,            \* environment: the browser's time zone, "UTC" or "DST"
    data,          \* environment: the item array the server answers with
    isLoading,     \* useState(true)            Timeline.js:43
    error,         \* useState(null)            Timeline.js:44
    items,         \* useState([])              Timeline.js:35
    lanes,         \* useState([])              Timeline.js:36
    zoomLevel,     \* useState(1)               Timeline.js:37
    draggingItem,  \* useState(null)            Timeline.js:38: null or the id of the
                   \* item object held (all the code reads of it, lines 170, 181, 244, 250)
    dragType,      \* useState(null)            Timeline.js:39: "null", "start", "end", "move"
    dragStartX,    \* useState(0)               Timeline.js:40
    editingItem,   \* useState(null)            Timeline.js:41
    editingText,   \* useState('')              Timeline.js:42
    depsItems,     \* [items] as the lanes effect last saw it (Timeline.js:122)
    bound,         \* what the bound mousemove/mouseup listeners close over
    view,          \* the committed render: what the DOM shows and its handlers close over
    pointerX,      \* clientX of the pointer
    press,         \* the current mouse press and the click it will produce
    focused        \* the rename input has the focus (autoFocus, Timeline.js:371)

vars == << tz, data, isLoading, error, items, lanes, zoomLevel, draggingItem, dragType,
           dragStartX, editingItem, editingText, depsItems, bound, view,
           pointerX, press, focused >>

----------------------------------------------------------------------------
(* Bounds of the model *)

\* the item arrays handed to the lane assignment have at most this many items
MaxItems == 3
\* their dates are day numbers 0..MaxDate
MaxDate == 2
\* dragging keeps every date of the timeline within the days 0..MaxDay
MaxDay == 3
\* the pointer's clientX is one of 0, PointerStep, ..., MaxPointer * PointerStep
MaxPointer == 1
PointerStep == 12
\* zooming keeps numerator and denominator of the zoom factor up to ZoomCap
ZoomCap == 6
\* and, where only the zoom and the geometry are looked at, up to ZoomFullCap
ZoomFullCap == 2000000
\* pointer displacements looked at on their own are -MaxShift..MaxShift pixels
MaxShift == 60

----------------------------------------------------------------------------
(* Date arithmetic: new Date(s), setDate/getDate, toISOString().split('T')[0] *)

HoursPerDay == 24

\* A date string is the number of its day; InvalidDay stands for a string that
\* does not parse ('', 'soon').  A time value is a number of hours since the
\* midnight UTC of day 0; NaN stands for the time value of an Invalid Date.
InvalidDay == -99
NaN == -1000000

\* new Date('YYYY-MM-DD'): a date-only ISO string is midnight UTC of that day,
\* an unparseable string is an Invalid Date
ParseDate(day) == IF day = InvalidDay THEN NaN ELSE day * HoursPerDay

\* a < b on Dates or time values: false when either side is NaN
Less(a, b) == a # NaN /\ b # NaN /\ a < b

\* The zone "DST" lies HoursWest hours behind UTC in winter and puts its clocks
\* one hour forward at 02:00 local time of day DstDay (HoursWest 5 and the
\* second Sunday of March: America/New_York).  The zone "UTC" has no offset.
HoursWest == 5
DstDay == 1
DstStartUtc == DstDay * HoursPerDay + 2 + HoursWest

\* local wall-clock time of the instant t (what getDate/getHours read)
UtcToLocal(zone, t) ==
    IF zone = "UTC" THEN t
    ELSE IF t < DstStartUtc THEN t - HoursWest ELSE t - HoursWest + 1

\* the instant of a local wall-clock time (what setDate stores).  The model's
\* wall-clock times are 19:00 or 20:00, never inside the skipped hour.
LocalToUtc(zone, local) ==
    IF zone = "UTC" THEN local
    ELSE IF local + HoursWest < DstStartUtc THEN local + HoursWest
         ELSE local + HoursWest - 1

\* date.setDate(date.getDate() + n): the local calendar day moves by n, the
\* local time of day stays; an Invalid Date stays invalid
setDatePlus(zone, t, n) ==
    IF t = NaN THEN NaN
    ELSE LocalToUtc(zone, UtcToLocal(zone, t) + n * HoursPerDay)

\* date.toISOString() throws a RangeError on an Invalid Date
toISOStringThrows(t) == t = NaN

\* date.toISOString().split('T')[0]: the UTC calendar day of the instant
toISODay(t) == t \div HoursPerDay

----------------------------------------------------------------------------
(* assignLanesToItems, Timeline.js:7-31 *)

\* the comparator of the sort: new Date(a.start) - new Date(b.start)
\* (a NaN result counts as +0 in the sort)
compareStart(a, b) ==
    IF ParseDate(a.start) = NaN \/ ParseDate(b.start) = NaN THEN 0
    ELSE ParseDate(a.start) - ParseDate(b.start)

\* Insert x into the sorted sequence s behind every element that does not
\* compare greater: Array.prototype.sort is stable, equal keys keep input order.
RECURSIVE InsertStable(_, _)
InsertStable(s, x) ==
    IF s = << >> THEN << x >>
    ELSE IF compareStart(s[Len(s)], x) <= 0 THEN Append(s, x)
    ELSE Append(InsertStable(SubSeq(s, 1, Len(s) - 1), x), s[Len(s)])

\* mutant: the copy is not sorted
sortedItemsUnsorted(its) == its

\* [...items].sort(comparator)
RECURSIVE sortedItems(_)
sortedItems(its) ==
    IF its = << >> THEN << >>
    ELSE InsertStable(sortedItems(SubSeq(its, 1, Len(its) - 1)), its[Len(its)])

\* mutant: <= in place of < in the test of line 19
LaneFitsTouching(lane, item) ==
    \/ Less(ParseDate(lane[Len(lane)].end), ParseDate(item.start))
    \/ /\ ParseDate(item.start) # NaN
       /\ ParseDate(lane[Len(lane)].end) = ParseDate(item.start)

\* the test of line 19: the lane's last item ends strictly before item starts
LaneFits(lane, item) == Less(ParseDate(lane[Len(lane)].end), ParseDate(item.start))

\* mutant: the item takes the place of the lane's last item
assignItemToLaneReplace(lns, item) ==
    LET fit == { i \in 1..Len(lns) : LaneFits(lns[i], item) }
    IN  IF fit = {} THEN Append(lns, << item >>)
        ELSE LET i == CHOOSE j \in fit : \A k \in fit : j <= k
             IN  [lns EXCEPT ![i] = [@ EXCEPT ![Len(@)] = item]]

\* mutant: the item is pushed onto the last lane that fits
assignItemToLaneLastFit(lns, item) ==
    LET fit == { i \in 1..Len(lns) : LaneFits(lns[i], item) }
    IN  IF fit = {} THEN Append(lns, << item >>)
        ELSE LET i == CHOOSE j \in fit : \A k \in fit : j >= k
             IN  [lns EXCEPT ![i] = Append(lns[i], item)]

\* assignItemToLane: push onto the first lane that fits, else open a new lane
assignItemToLane(lns, item) ==
    LET fit == { i \in 1..Len(lns) : LaneFits(lns[i], item) }
    IN  IF fit = {} THEN Append(lns, << item >>)
        ELSE LET i == CHOOSE j \in fit : \A k \in fit : j <= k
             IN  [lns EXCEPT ![i] = Append(lns[i], item)]

RECURSIVE AssignAll(_, _)
AssignAll(lns, its) ==
    IF its = << >> THEN lns
    ELSE AssignAll(assignItemToLane(lns, Head(its)), Tail(its))

assignLanesToItems(its) ==
    IF Len(its) = 0 THEN << >> ELSE AssignAll(<< >>, sortedItems(its))

----------------------------------------------------------------------------
(* Zoom, Timeline.js:153-158.  A zoom factor is the fraction num/den in     *)
(* lowest terms; 1.2 is 6/5.                                                *)

RECURSIVE GCD(_, _)
GCD(a, b) == IF b = 0 THEN a ELSE GCD(b, a % b)

Fraction(n, d) == [num |-> n \div GCD(n, d), den |-> d \div GCD(n, d)]

ZoomOne == Fraction(1, 1)
ZoomMin == Fraction(1, 2)
ZoomMax == Fraction(5, 1)

\* mutant: the result is not clamped
handleZoomUnclamped(prevZoom, zoomIn) ==
    IF zoomIn THEN Fraction(prevZoom.num * 6, prevZoom.den * 5)
    ELSE Fraction(prevZoom.num * 5, prevZoom.den * 6)

\* the updater of handleZoom: Math.max(0.5, Math.min(5, newZoom))
handleZoom(prevZoom, zoomIn) ==
    LET newZoom == IF zoomIn THEN Fraction(prevZoom.num * 6, prevZoom.den * 5)
                             ELSE Fraction(prevZoom.num * 5, prevZoom.den * 6)
    IN  IF newZoom.num > 5 * newZoom.den THEN ZoomMax
        ELSE IF 2 * newZoom.num < newZoom.den THEN ZoomMin
        ELSE newZoom

----------------------------------------------------------------------------
(* One drag step, Timeline.js:169-210 *)

DayWidth == 24

\* Math.round(p / q) for q > 0: the nearest integer, a half rounds up
MathRound(p, q) == (2 * p + q) \div (2 * q)

\* mutant: the zoom is left out of the width of a day
PxPerDayUnzoomed(zoom) == Fraction(DayWidth, 1)

\* 24 * zoomLevel: the width of a day in pixels
PxPerDay(zoom) == Fraction(DayWidth * zoom.num, zoom.den)

\* x / y for fractions, y > 0; common factors are taken out before multiplying
FracDiv(x, y) ==
    LET g == GCD(x.num, y.num)
        h == GCD(x.den, y.den)
    IN  [num |-> (x.num \div g) * (y.den \div h), den |-> (x.den \div h) * (y.num \div g)]

\* Math.round(px / (24 * zoomLevel)) for a distance of px pixels
daysDeltaPx(px, zoom) ==
    LET q == FracDiv(px, PxPerDay(zoom)) IN MathRound(q.num, q.den)

\* daysDelta of line 173: Math.round(deltaX / (24 * zoomLevel)), deltaX the
\* difference of two clientX
daysDelta(deltaX, zoom) == daysDeltaPx(Fraction(deltaX, 1), zoom)

\* the body of prevItems.map(...) for the item the session targets, lines 183-207
dragItem(zone, item, type, delta) ==
    LET start == ParseDate(item.start)
        end   == ParseDate(item.end)
        movedStart == setDatePlus(zone, start, delta)
        movedEnd   == setDatePlus(zone, end, delta)
    IN  IF type = "start"
        THEN IF Less(movedStart, end) THEN [item EXCEPT !.start = toISODay(movedStart)]
             ELSE item
        ELSE IF type = "end"
        THEN IF Less(start, movedEnd) THEN [item EXCEPT !.end = toISODay(movedEnd)]
             ELSE item
        ELSE IF type = "move"
        THEN [item EXCEPT !.start = toISODay(movedStart), !.end = toISODay(movedEnd)]
        ELSE item

\* the map callback throws for the item: only mode move calls toISOString
\* without a test before it, lines 203-204
dragItemThrows(zone, item, type, delta) ==
    /\ type = "move"
    /\ \/ toISOStringThrows(setDatePlus(zone, ParseDate(item.start), delta))
       \/ toISOStringThrows(setDatePlus(zone, ParseDate(item.end), delta))

\* the updater handed to setItems throws
dragItemsThrows(zone, prevItems, targetId, type, delta) ==
    \E i \in 1..Len(prevItems) :
        /\ prevItems[i].id = targetId
        /\ dragItemThrows(zone, prevItems[i], type, delta)

\* mutant: the test of line 181 is missing, every item is dragged
dragItemsAll(zone, prevItems, targetId, type, delta) ==
    [i \in 1..Len(prevItems) |-> dragItem(zone, prevItems[i], type, delta)]

\* the updater handed to setItems, lines 179-209
dragItems(zone, prevItems, targetId, type, delta) ==
    [i \in 1..Len(prevItems) |->
        IF prevItems[i].id # targetId THEN prevItems[i]
        ELSE dragItem(zone, prevItems[i], type, delta)]

\* the updater handed to setItems by saveEdit, lines 229-235
renameItems(prevItems, id, text) ==
    [i \in 1..Len(prevItems) |->
        IF prevItems[i].id = id THEN [prevItems[i] EXCEPT !.name = text]
        ELSE prevItems[i]]

----------------------------------------------------------------------------
(* The visible range and the geometry of an item, Timeline.js:48-80, 125-150 *)

DefaultDays == 30
PaddingDays == 7
MinWidth == 80

\* new Date(): the clock of the render reads 06:00 UTC of day DstDay
Now == DstDay * HoursPerDay + 6

\* Math.min(...ts) and Math.max(...ts): NaN if an argument is NaN
MathMin(ts) == IF NaN \in ts THEN NaN ELSE CHOOSE t \in ts : \A u \in ts : t <= u
MathMax(ts) == IF NaN \in ts THEN NaN ELSE CHOOSE t \in ts : \A u \in ts : t >= u

\* new Date(y, m, d + n) for the local year, month and day of the Date t:
\* the local midnight n days after the local day of t
LocalMidnightPlus(zone, t, n) ==
    LocalToUtc(zone, ((UtcToLocal(zone, t) \div HoursPerDay) + n) * HoursPerDay)

\* the range of lines 50-54 (and of the catch block, lines 73-78)
defaultRange(zone, now) ==
    [minDate |-> now, maxDate |-> LocalMidnightPlus(zone, now, DefaultDays)]

\* calculateDateRange: nothing in the try block throws, a NaN time value
\* makes an Invalid Date and setDate leaves it invalid
calculateDateRange(zone, now, its) ==
    IF Len(its) = 0 THEN defaultRange(zone, now)
    ELSE LET minDate == MathMin({ ParseDate(its[i].start) : i \in 1..Len(its) })
             maxDate == MathMax({ ParseDate(its[i].end) : i \in 1..Len(its) })
         IN  [minDate |-> setDatePlus(zone, minDate, 0 - PaddingDays),
              maxDate |-> setDatePlus(zone, maxDate, PaddingDays)]

\* Math.floor(p / q) and Math.ceil(p / q) for q > 0
MathFloor(p, q) == p \div q
MathCeil(p, q) == 0 - ((0 - p) \div q)

\* a number of pixels: a fraction, or NaN
NaNpx == [num |-> NaN, den |-> 1]

\* days * 24 * zoomLevel
DaysToPx(days, zoom) == Fraction(days * DayWidth * zoom.num, zoom.den)

\* Math.max(px, 80)
AtLeastMinWidth(px) == IF px.num < MinWidth * px.den THEN Fraction(MinWidth, 1) ELSE px

\* startDays and endDays of lines 133-134 (NaN if a Date is invalid)
startDays(range, item) ==
    IF ParseDate(item.start) = NaN \/ range.minDate = NaN THEN NaN
    ELSE MathFloor(ParseDate(item.start) - range.minDate, HoursPerDay)

endDays(range, item) ==
    IF ParseDate(item.end) = NaN \/ range.minDate = NaN THEN NaN
    ELSE MathCeil(ParseDate(item.end) - range.minDate, HoursPerDay)

\* getItemStyle, lines 131-150: left and width in pixels
getItemStyle(range, item, zoom) ==
    LET s == startDays(range, item)
        e == endDays(range, item)
    IN  [left  |-> IF s = NaN THEN NaNpx ELSE DaysToPx(s, zoom),
         width |-> IF s = NaN \/ e = NaN THEN NaNpx
                   ELSE AtLeastMinWidth(DaysToPx(e - s, zoom))]

----------------------------------------------------------------------------
(* The component's state and what the server may answer *)

\* null, and a value that is not null
Null == << >>
Some(v) == << v >>

Item(id, name, start, end, color) ==
    [id |-> id, name |-> name, start |-> start, end |-> end, color |-> color]

\* the item arrays of the timeline: unique ids, start < end
Datasets ==
    { << Item(1, "A", 0, 2, "red"), Item(2, "B", 1, 3, "blue") >>,
      << Item(1, "A", 0, 1, "red") >>,
      << >> }

\* the strings typed into the rename input
Texts == { "", "New" }

PointerXs == { k * PointerStep : k \in 0..MaxPointer }

InWindow(its) ==
    \A i \in 1..Len(its) :
        /\ its[i].start \in (0..MaxDay) \cup { InvalidDay }
        /\ its[i].end \in (0..MaxDay) \cup { InvalidDay }

\* what the component function returns for a state, lines 293-397
Rendered(loading, err, its, lns, editing, text) ==
    [ mode        |-> IF loading THEN "loading"
                      ELSE IF err # Null THEN "error"
                      ELSE IF Len(its) = 0 THEN "empty" ELSE "timeline",
      items       |-> its,
      lanes       |-> lns,
      editingItem |-> editing,
      editingText |-> text ]

\* An error thrown while rendering is caught by no error boundary: React
\* unmounts the root, the page is empty and the listeners are removed.
Unmounted ==
    [ mode |-> "unmounted", items |-> << >>, lanes |-> << >>,
      editingItem |-> Null, editingText |-> "" ]

\* the items drawn by lanes.map(lane => lane.map(item => ...)), lines 342-386
ViewItems ==
    IF view.mode # "timeline" THEN {}
    ELSE UNION { { view.lanes[l][k] : k \in DOMAIN view.lanes[l] } : l \in DOMAIN view.lanes }

----------------------------------------------------------------------------
(* Rendering.  The lanes effect (lines 114-122) runs after a commit whose   *)
(* items differ from the items it last saw; the listener effect (lines      *)
(* 242-262) re-binds handleMouseMove and handleMouseUp after a commit whose  *)
(* draggingItem, dragStartX or dragType differ, and the new listeners close  *)
(* over the state of that render, zoomLevel included.                        *)

Closure(dragging, type, startX, zoom) ==
    [draggingItem |-> dragging, dragType |-> type, dragStartX |-> startX,
     zoomLevel |-> zoom]

ListenerDeps(c) == << c.draggingItem, c.dragStartX, c.dragType >>

\* the listeners after a commit of the given state
Rebind(old, dragging, type, startX, zoom) ==
    IF ListenerDeps(old) # << dragging, startX, type >>
    THEN Closure(dragging, type, startX, zoom)
    ELSE old

\* the lanes after the lanes effect of a commit with the given items
LanesEffect(lastItems, oldLanes, its) ==
    IF its # lastItems THEN assignLanesToItems(its) ELSE oldLanes

\* nothing is left to render and no effect is left to run
Quiescent ==
    /\ view = Rendered(isLoading, error, items, lanes, editingItem, editingText)
    /\ depsItems = items
    /\ ListenerDeps(bound) = << draggingItem, dragStartX, dragType >>

\* One render pass: the component function runs on the current state and is
\* committed, then the effects of that commit run.  setLanes of the lanes
\* effect leaves a further pass to do.
Render ==
    /\ view # Unmounted
    /\ UNCHANGED focused
    /\ ~Quiescent
    /\ view' = Rendered(isLoading, error, items, lanes, editingItem, editingText)
    /\ lanes' = LanesEffect(depsItems, lanes, items)
    /\ depsItems' = items
    /\ bound' = Rebind(bound, draggingItem, dragType, dragStartX, zoomLevel)
    /\ UNCHANGED << tz, data, isLoading, error, items, zoomLevel, draggingItem,
                    dragType, dragStartX, editingItem, editingText, pointerX, press >>

\* A state update made in a discrete event (mousedown, mouseup, click,
\* dblclick, keydown, change, blur) is rendered before the next event is
\* delivered: the passes above run until nothing is left to do.  The formula
\* reads the primed state the handler has set.
SyncRender ==
    /\ lanes' = LanesEffect(depsItems, lanes, items')
    /\ depsItems' = items'
    /\ bound' = Rebind(bound, draggingItem', dragType', dragStartX', zoomLevel')
    /\ view' = Rendered(isLoading', error', items', lanes', editingItem', editingText')

----------------------------------------------------------------------------
(* Initial state: the component is mounted and shows "Loading timeline data" *)

InitComponent ==
    /\ isLoading = TRUE
    /\ error = Null
    /\ items = << >>
    /\ lanes = << >>
    /\ zoomLevel = ZoomOne
    /\ draggingItem = Null
    /\ dragType = "null"
    /\ dragStartX = 0
    /\ editingItem = Null
    /\ editingText = ""
    /\ depsItems = << >>
    /\ bound = Closure(Null, "null", 0, ZoomOne)
    /\ view = Rendered(TRUE, Null, << >>, << >>, Null, "")
    /\ pointerX = 0
    /\ press = [phase |-> "up", kind |-> "none", id |-> Null]
    /\ focused = FALSE

Init ==
    /\ tz \in { "UTC", "DST" }
    /\ data \in Datasets
    /\ InitComponent

----------------------------------------------------------------------------
(* The fetch of lines 83-111 *)

\* .then(data => { setItems(...); setIsLoading(false) })
LoadData ==
    /\ isLoading
    /\ UNCHANGED focused
    /\ items' = data
    /\ isLoading' = FALSE
    /\ UNCHANGED << tz, data, error, lanes, zoomLevel, draggingItem, dragType,
                    dragStartX, editingItem, editingText, depsItems, bound, view,
                    pointerX, press >>

\* .catch(err => { setError(err.message); setIsLoading(false) })
FetchError ==
    /\ isLoading
    /\ UNCHANGED focused
    /\ error' = Some("Network response was not ok")
    /\ isLoading' = FALSE
    /\ UNCHANGED << tz, data, items, lanes, zoomLevel, draggingItem, dragType,
                    dragStartX, editingItem, editingText, depsItems, bound, view,
                    pointerX, press >>

----------------------------------------------------------------------------
(* Mouse events.  press.phase is "down" between mousedown and mouseup,       *)
(* "click" when the click that follows a mouseup is still to be delivered,    *)
(* "clicked" after it was delivered to an item and "up" otherwise.            *)

ButtonUp == press.phase \in { "up", "clicked" }

\* startDrag(e, item, type), lines 161-166
startDrag(item, type) ==
    /\ draggingItem' = Some(item.id)
    /\ dragType' = type
    /\ dragStartX' = pointerX

\* mousedown on an edge handle of a drawn item, lines 357 and 383
MouseDownHandle(item, type) ==
    /\ ButtonUp
    /\ ~focused
    /\ UNCHANGED focused
    /\ item \in ViewItems
    /\ startDrag(item, type)
    /\ press' = [phase |-> "down", kind |-> "handle", id |-> Some(item.id)]
    /\ UNCHANGED << tz, data, isLoading, error, items, zoomLevel, editingItem,
                    editingText, pointerX >>
    /\ SyncRender

\* mousedown on the body of a drawn item: the item has no onMouseDown
MouseDownBody(item) ==
    /\ ButtonUp
    /\ ~focused
    /\ UNCHANGED focused
    /\ item \in ViewItems
    /\ press' = [phase |-> "down", kind |-> "body", id |-> Some(item.id)]
    /\ UNCHANGED << tz, data, isLoading, error, items, lanes, zoomLevel,
                    draggingItem, dragType, dragStartX, editingItem, editingText,
                    depsItems, bound, view, pointerX >>

\* mutant: a step of daysDelta 0 moves dragStartX to the pointer
ZeroDeltaStepAdvancing(x) ==
    /\ dragStartX' = x
    /\ UNCHANGED << items, bound, view >>

\* line 175: if (daysDelta === 0) return;
ZeroDeltaStep(x) == UNCHANGED << items, dragStartX, bound, view >>

\* mutant: dragStartX stays where it was
setDragStartXNot(x) == dragStartX' = dragStartX

\* line 177: setDragStartX(e.clientX)
setDragStartX(x) == dragStartX' = x

\* The document's mousemove listener, lines 243-247, calling handleDrag,
\* lines 169-210, both as bound by the listener effect.  The pointer moves to x.
MouseMove(x) ==
    /\ press.phase # "click"
    /\ UNCHANGED focused
    /\ x \in PointerXs \ { pointerX }
    /\ pointerX' = x
    /\ IF bound.draggingItem = Null
       THEN UNCHANGED << items, dragStartX, bound, view >>
       ELSE LET delta == daysDelta(x - bound.dragStartX, bound.zoomLevel)
            IN  IF delta = 0
                THEN ZeroDeltaStep(x)
                ELSE IF dragItemsThrows(tz, items, bound.draggingItem[1],
                                        bound.dragType, delta)
                THEN /\ view' = Unmounted
                     /\ bound' = Closure(Null, "null", 0, ZoomOne)
                     /\ UNCHANGED << items, dragStartX >>
                ELSE /\ setDragStartX(x)
                     /\ items' = dragItems(tz, items, bound.draggingItem[1],
                                           bound.dragType, delta)
                     /\ InWindow(items')
                     /\ UNCHANGED << bound, view >>
    /\ UNCHANGED << tz, data, isLoading, error, lanes, zoomLevel, draggingItem,
                    dragType, editingItem, editingText, depsItems, press >>

\* The document's mouseup listener, lines 249-253, calling endDrag, lines
\* 213-216.  onItem: the button is released over the item it was pressed on,
\* so that a click on that item follows.
MouseUp(onItem) ==
    /\ press.phase = "down"
    /\ UNCHANGED focused
    /\ press' = [press EXCEPT !.phase = IF onItem THEN "click" ELSE "up"]
    /\ IF bound.draggingItem # Null
       THEN /\ draggingItem' = Null
            /\ dragType' = "null"
            /\ UNCHANGED << tz, data, isLoading, error, items, zoomLevel,
                            dragStartX, editingItem, editingText, pointerX >>
            /\ SyncRender
       ELSE UNCHANGED << tz, data, isLoading, error, items, lanes, zoomLevel,
                         draggingItem, dragType, dragStartX, editingItem,
                         editingText, depsItems, bound, view, pointerX >>

\* The click that follows the mouseup bubbles to the item's onClick, line 352
Click ==
    /\ press.phase = "click"
    /\ UNCHANGED focused
    /\ \E item \in ViewItems :
          /\ Some(item.id) = press.id
          /\ startDrag(item, "move")
    /\ press' = [press EXCEPT !.phase = "clicked"]
    /\ UNCHANGED << tz, data, isLoading, error, items, zoomLevel, editingItem,
                    editingText, pointerX >>
    /\ SyncRender

\* A click on Zoom In or Zoom Out (by keyboard: no mouseup ends the session),
\* lines 312-323; numerator and denominator of the zoom factor stay up to cap
ZoomClickUpTo(zoomIn, cap) ==
    /\ ButtonUp
    /\ UNCHANGED focused
    /\ view.mode \in { "empty", "timeline" }
    /\ zoomLevel.num <= cap /\ zoomLevel.den <= cap
    /\ zoomLevel' = handleZoom(zoomLevel, zoomIn)
    /\ zoomLevel'.num <= cap /\ zoomLevel'.den <= cap
    /\ UNCHANGED << tz, data, isLoading, error, items, draggingItem, dragType,
                    dragStartX, editingItem, editingText, pointerX, press >>
    /\ SyncRender

ZoomClick(zoomIn) == ZoomClickUpTo(zoomIn, ZoomCap)

----------------------------------------------------------------------------
(* Inline rename, lines 219-239 and 362-377 *)

\* a value a JavaScript condition takes for false: null or the number 0
Falsy(opt) == opt = Null \/ opt = Some(0)

\* the input is drawn in place of the name of the item being edited
InputShown == \E item \in ViewItems : view.editingItem = Some(item.id)

\* dblclick on the name of a drawn item; the second of its two clicks was
\* delivered to the item
DoubleClick(item) ==
    /\ press.phase = "clicked"
    /\ focused' = TRUE
    /\ press.id = Some(item.id)
    /\ item \in ViewItems
    /\ view.editingItem # Some(item.id)
    /\ editingItem' = Some(item.id)
    /\ editingText' = item.name
    /\ UNCHANGED << tz, data, isLoading, error, items, zoomLevel, draggingItem,
                    dragType, dragStartX, pointerX, press >>
    /\ SyncRender

\* onChange of the input, line 366
ChangeText(text) ==
    /\ InputShown
    /\ focused
    /\ UNCHANGED focused
    /\ text \in Texts \ { editingText }
    /\ editingText' = text
    /\ UNCHANGED << tz, data, isLoading, error, items, zoomLevel, draggingItem,
                    dragType, dragStartX, editingItem, pointerX, press >>
    /\ SyncRender

\* the focus returns to the input that is still drawn (Tab key)
FocusInput ==
    /\ InputShown
    /\ ~focused
    /\ focused' = TRUE
    /\ UNCHANGED << tz, data, isLoading, error, items, lanes, zoomLevel,
                    draggingItem, dragType, dragStartX, editingItem,
                    editingText, depsItems, bound, view, pointerX, press >>

\* saveEdit, lines 226-239, called by onBlur (blur: the focus leaves the
\* input) or by the Enter key (the focus stays unless the input goes away)
SaveEdit(blur) ==
    /\ InputShown
    /\ focused
    /\ IF Falsy(view.editingItem)
       THEN /\ focused' = ~blur
            /\ UNCHANGED << tz, data, isLoading, error, items, lanes, zoomLevel,
                            draggingItem, dragType, dragStartX, editingItem,
                            editingText, depsItems, bound, view, pointerX, press >>
       ELSE /\ items' = renameItems(items, view.editingItem[1], view.editingText)
            /\ editingItem' = Null
            /\ editingText' = ""
            /\ focused' = FALSE
            /\ UNCHANGED << tz, data, isLoading, error, zoomLevel, draggingItem,
                            dragType, dragStartX, pointerX, press >>
            /\ SyncRender

----------------------------------------------------------------------------
(* The specification of the component *)

Next ==
    \/ LoadData
    \/ FetchError
    \/ Render
    \/ \E item \in ViewItems, type \in { "start", "end" } : MouseDownHandle(item, type)
    \/ \E item \in ViewItems : MouseDownBody(item)
    \/ \E x \in PointerXs : MouseMove(x)
    \/ \E onItem \in BOOLEAN : MouseUp(onItem)
    \/ Click
    \/ \E zoomIn \in BOOLEAN : ZoomClick(zoomIn)

Spec == Init /\ [][Next]_vars

\* the component in a zone without daylight saving time
InitUTC == Init /\ tz = "UTC"

SpecUTC == InitUTC /\ [][Next]_vars

\* The component with an answer of the server in which a date does not parse
BadDatasets ==
    { << Item(1, "A", InvalidDay, 2, "red"), Item(2, "B", 1, 3, "blue") >>,
      << Item(1, "A", 0, InvalidDay, "red") >> }

InitBad ==
    /\ tz \in { "UTC", "DST" }
    /\ data \in BadDatasets
    /\ InitComponent

SpecBad == InitBad /\ [][Next]_vars

\* Zoom and geometry: the buttons Zoom In and Zoom Out over the whole range of
\* the zoom factor, with no drag.  One answer of the server has an item that
\* starts after the clocks of the zone "DST" went forward.
ZoomDatasets ==
    { << Item(1, "A", 2, 4, "red") >>,
      << Item(1, "A", 0, 2, "red"), Item(2, "B", 1, 3, "blue") >>,
      << >> }

InitZoom ==
    /\ tz \in { "UTC", "DST" }
    /\ data \in ZoomDatasets
    /\ InitComponent

NextZoom ==
    \/ LoadData
    \/ Render
    \/ \E x \in PointerXs : MouseMove(x)
    \/ \E zoomIn \in BOOLEAN : ZoomClickUpTo(zoomIn, ZoomFullCap)

SpecZoom == InitZoom /\ [][NextZoom]_vars

\* The rename: the clicks and the double click on an item, the input and
\* saveEdit, with the pointer at rest.
NextEdit ==
    \/ LoadData
    \/ Render
    \/ \E item \in ViewItems : MouseDownBody(item)
    \/ \E onItem \in BOOLEAN : MouseUp(onItem)
    \/ Click
    \/ \E item \in ViewItems : DoubleClick(item)
    \/ \E text \in Texts : ChangeText(text)
    \/ FocusInput
    \/ \E blur \in BOOLEAN : SaveEdit(blur)

\* ids are strings or integers: one answer of the server has an item of id 0
EditDatasets ==
    { << Item(0, "A", 0, 2, "red"), Item(1, "B", 1, 3, "blue") >>,
      << Item(1, "A", 0, 1, "red") >> }

InitEdit ==
    /\ tz = "UTC"
    /\ data \in EditDatasets
    /\ InitComponent

SpecEdit == InitEdit /\ [][NextEdit]_vars

----------------------------------------------------------------------------
(* Lane assignment on its own: the server answers with any item array of up *)
(* to MaxItems items whose dates are days 0..MaxDate (equal starts, items    *)
(* of no duration and items that end before they start included); the       *)
(* component loads it and the lanes effect assigns the lanes.                *)

LaneItems ==
    { Item(i, "A", s, e, "red") : i \in 1..MaxItems, s \in 0..MaxDate, e \in 0..MaxDate }

LaneInputs ==
    UNION { { its \in [1..n -> LaneItems] : \A i \in 1..n : its[i].id = i } : n \in 0..MaxItems }

InitLanes ==
    /\ tz = "UTC"
    /\ data \in LaneInputs
    /\ InitComponent

NextLanes ==
    \/ LoadData
    \/ Render

SpecLanes == InitLanes /\ [][NextLanes]_vars

\* the lanes effect has run on the loaded items
LanesAssigned == ~isLoading /\ depsItems = items

ValidItems(its) == \A i \in 1..Len(its) : its[i].start <= its[i].end

\* the places of the lanes: lane l, position k
Places == { << l, k >> \in (1..Len(lanes)) \X (1..MaxItems + 1) : k <= Len(lanes[l]) }

(* C1: every item of the input is at exactly one place of the lanes, every   *)
(* place holds an item of the input, and an empty input gives no lanes.      *)
C1_LanesPartitionItems ==
    LanesAssigned =>
        /\ \A i \in 1..Len(items) :
              Cardinality({ p \in Places : lanes[p[1]][p[2]] = items[i] }) = 1
        /\ \A p \in Places : \E i \in 1..Len(items) : lanes[p[1]][p[2]] = items[i]
        /\ \A l \in 1..Len(lanes) : Len(lanes[l]) >= 1
        /\ (Len(items) = 0 => lanes = << >>)

\* lanes were assigned to three items, two of them with the same start date
C1_Witness ==
    /\ LanesAssigned
    /\ Len(items) = 3
    /\ items[1].start = items[2].start
    /\ Len(lanes) = 2

\* the greatest number of items that cover one day (an item covers the days
\* start..end; two items overlap unless one ends strictly before the other starts)
MaxOverlap(its) ==
    LET cover(d) == Cardinality({ i \in 1..Len(its) : its[i].start <= d /\ d <= its[i].end })
    IN  CHOOSE n \in 0..Len(its) :
            /\ \E d \in 0..MaxDate : cover(d) = n
            /\ \A d \in 0..MaxDate : cover(d) <= n

(* C2: for a non-empty input of items with start <= end, the number of lanes *)
(* is the greatest number of items that overlap at one instant.              *)
C2_LaneCountIsMaxOverlap ==
    (LanesAssigned /\ Len(items) > 0 /\ ValidItems(items)) =>
        Len(lanes) = MaxOverlap(items)

\* three valid items, two lanes: two of the items share a lane
C2_Witness ==
    /\ LanesAssigned
    /\ Len(items) = 3
    /\ ValidItems(items)
    /\ Len(lanes) = 2
    /\ MaxOverlap(items) = 2

Overlap(a, b) == ~(a.end < b.start) /\ ~(b.end < a.start)

(* C3 as claimed: in every lane consecutive items satisfy earlier.end <      *)
(* later.start, starts are strictly ascending and no two items overlap.      *)
C3_Original ==
    LanesAssigned =>
        \A l \in 1..Len(lanes) :
            /\ \A k \in 1..Len(lanes[l]) - 1 :
                  /\ lanes[l][k].end < lanes[l][k + 1].start
                  /\ lanes[l][k].start < lanes[l][k + 1].start
            /\ \A j, k \in 1..Len(lanes[l]) : j # k => ~Overlap(lanes[l][j], lanes[l][k])

(* C3 as amended: in every lane consecutive items satisfy earlier.end <      *)
(* later.start, starts are ascending, and no two items overlap; starts are   *)
(* strictly ascending when every item of the input has start <= end.         *)
C3_LaneItemsDisjoint ==
    LanesAssigned =>
        \A l \in 1..Len(lanes) :
            /\ \A k \in 1..Len(lanes[l]) - 1 :
                  /\ lanes[l][k].end < lanes[l][k + 1].start
                  /\ lanes[l][k].start <= lanes[l][k + 1].start
                  /\ ValidItems(items) => lanes[l][k].start < lanes[l][k + 1].start
            /\ \A j, k \in 1..Len(lanes[l]) : j # k => ~Overlap(lanes[l][j], lanes[l][k])

\* a lane holds two items and another lane exists
C3_Witness ==
    /\ LanesAssigned
    /\ ValidItems(items)
    /\ Len(lanes) = 2
    /\ \E l \in 1..Len(lanes) : Len(lanes[l]) = 2

----------------------------------------------------------------------------
(* The drag session *)

\* the loaded items satisfy start < end
StrictItems(its) == \A i \in 1..Len(its) : its[i].start < its[i].end

\* the listeners target the item at index i
IsTarget(i) == bound.draggingItem # Null /\ items[i].id = bound.draggingItem[1]

\* daysDelta as handleDrag computes it for a pointer that moves to x
StepDelta(x) == daysDelta(x - bound.dragStartX, bound.zoomLevel)

\* this step is a call of handleDrag that gets past line 175, in the given mode
DragStep(type) ==
    /\ pointerX' # pointerX
    /\ bound.draggingItem # Null
    /\ bound.dragType = type
    /\ StepDelta(pointerX') # 0

(* C4: if every loaded item has start < end, every item has start < end in   *)
(* every state, whatever was dragged.                                        *)
C4_StartBeforeEnd ==
    StrictItems(data) => StrictItems(items)

(* C5: a move step with daysDelta n # 0 shifts start and end of the target   *)
(* by exactly n days.                                                        *)
C5_MoveShiftsByDelta ==
    [][DragStep("move") =>
          \A i \in 1..Len(items) : IsTarget(i) =>
              /\ items'[i].start = items[i].start + StepDelta(pointerX')
              /\ items'[i].end = items[i].end + StepDelta(pointerX')]_vars

(* C6: a start step writes start + daysDelta if that is before end, an end   *)
(* step writes end + daysDelta if that is after start; otherwise the item    *)
(* keeps start and end.                                                      *)
C6_ResizeGuarded ==
    [][/\ DragStep("start") =>
            \A i \in 1..Len(items) : IsTarget(i) =>
                items'[i] = IF items[i].start + StepDelta(pointerX') < items[i].end
                            THEN [items[i] EXCEPT !.start = @ + StepDelta(pointerX')]
                            ELSE items[i]
       /\ DragStep("end") =>
            \A i \in 1..Len(items) : IsTarget(i) =>
                items'[i] = IF items[i].end + StepDelta(pointerX') > items[i].start
                            THEN [items[i] EXCEPT !.end = @ + StepDelta(pointerX')]
                            ELSE items[i]]_vars

(* C7: a session exists only between a pointer-down and the following        *)
(* pointer-up: while no button is down there is no target item and no mode.  *)
C7_SessionOnlyWhilePressed ==
    press.phase \in { "up", "clicked" } => (draggingItem = Null /\ dragType = "null")

(* C8: a press on an edge handle never results in a session in mode move,    *)
(* neither at the pointer-down nor through the click of its release.         *)
C8_HandlePressNeverMoves ==
    press.kind = "handle" => dragType # "move"

(* C9: whenever the timeline is rendered, the lanes shown are                *)
(* assignLanesToItems of the items of that render.                           *)
C9_RenderedLanesCurrent ==
    view.mode = "timeline" => view.lanes = assignLanesToItems(view.items)

(* C10: a drag step keeps length and order of the items, leaves every item   *)
(* but the target unchanged, keeps the target's id, name and color; start    *)
(* mode keeps its end and end mode keeps its start.                          *)
C10_DragStepFrame ==
    [][pointerX' # pointerX =>
          /\ Len(items') = Len(items)
          /\ \A i \in 1..Len(items) :
                /\ items'[i].id = items[i].id
                /\ items'[i].name = items[i].name
                /\ items'[i].color = items[i].color
                /\ ~IsTarget(i) => items'[i] = items[i]
                /\ bound.dragType = "start" => items'[i].end = items[i].end
                /\ bound.dragType = "end" => items'[i].start = items[i].start]_vars

\* a start handle was dragged: the first of two items has a new start, the
\* second item is as loaded
C10_Witness ==
    /\ Len(items) = 2
    /\ dragType = "start"
    /\ draggingItem = Some(items[1].id)
    /\ items[1].start # data[1].start
    /\ items[2] = data[2]

----------------------------------------------------------------------------
(* The visible range and the geometry *)

\* the range computed by the render that is on the screen
VisibleRange == calculateDateRange(tz, Now, view.items)

\* the local calendar day of an instant
LocalDay(t) == UtcToLocal(tz, t) \div HoursPerDay

(* C11: the range on the screen is computed from the items of that render:   *)
(* for no items it runs from now to the day 30 days after today; otherwise   *)
(* minDate is 7 days before the least start and maxDate 7 days after the     *)
(* greatest end, so every item starts at least 7 days after minDate and ends *)
(* at least 7 days before maxDate, whatever was dragged.                     *)
C11_VisibleRangePadsItems ==
    /\ Len(view.items) = 0 =>
          /\ VisibleRange.minDate = Now
          /\ LocalDay(VisibleRange.maxDate) = LocalDay(Now) + DefaultDays
    /\ Len(view.items) > 0 =>
          /\ VisibleRange.minDate =
                MathMin({ ParseDate(view.items[i].start) : i \in 1..Len(view.items) })
                  - PaddingDays * HoursPerDay
          /\ VisibleRange.maxDate =
                MathMax({ ParseDate(view.items[i].end) : i \in 1..Len(view.items) })
                  + PaddingDays * HoursPerDay
    /\ \A i \in 1..Len(view.items) :
          /\ ParseDate(view.items[i].start) - VisibleRange.minDate
                >= PaddingDays * HoursPerDay
          /\ VisibleRange.maxDate - ParseDate(view.items[i].end)
                >= PaddingDays * HoursPerDay

\* a date of the rendered items does not parse
UnparseableShown ==
    \E i \in 1..Len(view.items) :
        ParseDate(view.items[i].start) = NaN \/ ParseDate(view.items[i].end) = NaN

(* C12: when a start or an end of a non-empty item list does not parse, the  *)
(* range is the default window from now to the day 30 days after today, and  *)
(* neither of its ends is an Invalid Date.                                   *)
C12_UnparseableGivesDefaultRange ==
    UnparseableShown =>
        /\ VisibleRange = defaultRange(tz, Now)
        /\ VisibleRange.minDate # NaN
        /\ VisibleRange.maxDate # NaN

(* C13: with dates that do not parse, the lane assignment, the range, the    *)
(* geometry and a drag step in every mode return a value: nothing throws,    *)
(* the component is never taken off the page by an error.                    *)
C13_TotalOnUnparseableDates ==
    view # Unmounted

\* the day 7 days before the least start of the rendered items
MinDateDay ==
    MathMin({ view.items[i].start : i \in 1..Len(view.items) }) - PaddingDays

(* C14: every drawn item has left = (days from minDate to its start) * 24 *  *)
(* zoom and width = max((days from its start to its end) * 24 * zoom, 80);   *)
(* an item of 2 days is 80 wide at zoom 1 and 240 wide at zoom 5.            *)
C14_GeometryFromDays ==
    /\ \A item \in ViewItems :
          /\ getItemStyle(VisibleRange, item, zoomLevel).left
                = DaysToPx(item.start - MinDateDay, zoomLevel)
          /\ getItemStyle(VisibleRange, item, zoomLevel).width
                = AtLeastMinWidth(DaysToPx(item.end - item.start, zoomLevel))
    /\ \A item \in ViewItems : item.end - item.start = 2 =>
          /\ zoomLevel = ZoomOne =>
                getItemStyle(VisibleRange, item, zoomLevel).width = Fraction(80, 1)
          /\ zoomLevel = ZoomMax =>
                getItemStyle(VisibleRange, item, zoomLevel).width = Fraction(240, 1)

\* x - y for fractions, on their least common denominator
FracSub(x, y) ==
    LET g == GCD(x.den, y.den)
    IN  Fraction(x.num * (y.den \div g) - y.num * (x.den \div g), (x.den \div g) * y.den)

\* left of an item that starts on day d, as the render on the screen draws it
LeftOfDay(d) == getItemStyle(VisibleRange, Item(0, "", d, d, ""), zoomLevel).left

(* C15: at every zoom factor the buttons reach, the pixel distance between   *)
(* the positions of two days d1 and d2, divided by the width of a day and     *)
(* rounded as handleDrag does, is the number of days from d1 to d2; and a     *)
(* pointer displacement of less than half the width of a day gives daysDelta  *)
(* 0.                                                                         *)
C15_PixelsRoundTrip ==
    /\ \A d1, d2 \in 0..MaxDay :
          daysDeltaPx(FracSub(LeftOfDay(d2), LeftOfDay(d1)), zoomLevel) = d2 - d1
    /\ \A dx \in (0 - MaxShift)..MaxShift :
          ( /\ 2 * dx * zoomLevel.den < DayWidth * zoomLevel.num
            /\ 0 - 2 * dx * zoomLevel.den < DayWidth * zoomLevel.num )
          => daysDelta(dx, zoomLevel) = 0

\* the timeline is drawn at zoom 1.2 * 1.2, where a day is 34.56 pixels wide
C15_Witness ==
    /\ view.mode = "timeline"
    /\ zoomLevel = Fraction(36, 25)
    /\ LeftOfDay(1) # LeftOfDay(0)

(* C17: after any sequence of zoom-in and zoom-out steps from 1 the zoom     *)
(* factor is at least 0.5 and at most 5; zooming in at 5 leaves it at 5 and   *)
(* zooming out at 0.5 leaves it at 0.5.                                      *)
C17_ZoomWithinBounds ==
    /\ zoomLevel.den <= 2 * zoomLevel.num
    /\ zoomLevel.num <= 5 * zoomLevel.den
    /\ zoomLevel = ZoomMax => handleZoom(zoomLevel, TRUE) = ZoomMax
    /\ zoomLevel = ZoomMin => handleZoom(zoomLevel, FALSE) = ZoomMin

\* nine clicks on Zoom In have brought the zoom factor from 1 to 5
C17_Witness ==
    /\ zoomLevel = ZoomMax
    /\ view.mode = "timeline"

----------------------------------------------------------------------------
(* The rename *)

(* C16: whatever the id of the item being renamed, a call of saveEdit (the    *)
(* focus leaves the input) sets the name of that item to the text of the      *)
(* input, changes no other field and no other item, and clears the editing    *)
(* id.                                                                        *)
C16_SaveEditRenames ==
    [][(focused /\ ~focused') =>
          /\ editingItem # Null
          /\ editingItem' = Null
          /\ Len(items') = Len(items)
          /\ \A i \in 1..Len(items) :
                items'[i] = IF items[i].id = editingItem[1]
                            THEN [items[i] EXCEPT !.name = editingText]
                            ELSE items[i]]_vars

----------------------------------------------------------------------------
(* First fit, written down on its own *)

\* item j of its is processed before item i: earlier start, or the same start
\* and earlier in the input
Before(its, j, i) ==
    \/ its[j].start < its[i].start
    \/ its[j].start = its[i].start /\ j < i

\* the index of the item processed as number k
Processed(its, k) ==
    CHOOSE i \in 1..Len(its) :
        Cardinality({ j \in 1..Len(its) : Before(its, j, i) }) = k - 1

\* the lanes after the first k items were processed
RECURSIVE FirstFit(_, _)
FirstFit(its, k) ==
    IF k = 0 THEN << >>
    ELSE LET lns  == FirstFit(its, k - 1)
             item == its[Processed(its, k)]
             free == { l \in 1..Len(lns) : lns[l][Len(lns[l])].end < item.start }
         IN  IF free = {} THEN lns \o << << item >> >>
             ELSE LET first == CHOOSE l \in free : \A m \in free : l <= m
                  IN  [l \in 1..Len(lns) |->
                          IF l = first THEN lns[l] \o << item >> ELSE lns[l]]

(* C18: the lanes are those of first fit: the items are processed by         *)
(* ascending start, equal starts in input order, and each goes to the first   *)
(* lane, in the order the lanes were opened, whose last item ends strictly    *)
(* before it starts, or to a new last lane.  A [1, 5], B [3, 7], C [6, 10]    *)
(* gives the lanes [[A, C], [B]].                                            *)
C18_LanesAreFirstFit ==
    /\ LanesAssigned => lanes = FirstFit(items, Len(items))
    /\ assignLanesToItems(<< Item(1, "A", 1, 5, "red"), Item(2, "B", 3, 7, "red"),
                             Item(3, "C", 6, 10, "red") >>)
          = << << Item(1, "A", 1, 5, "red"), Item(3, "C", 6, 10, "red") >>,
               << Item(2, "B", 3, 7, "red") >> >>

\* three items that were not sorted in the input, the last processed one went
\* to the first of two lanes that were both free
C18_Witness ==
    /\ LanesAssigned
    /\ Len(items) = 3
    /\ items[1].start > items[2].start
    /\ Len(lanes) = 2
    /\ Len(lanes[1]) = 2
    /\ lanes[2][1].end < lanes[1][2].start

----------------------------------------------------------------------------
(* dragStartX during a session *)

\* this step is a call of handleDrag during a session
DragMove == pointerX' # pointerX /\ bound.draggingItem # Null

(* C19: a mousemove during a session whose daysDelta is 0 changes nothing    *)
(* but the place of the pointer: no item, not the target, not the mode, and   *)
(* dragStartX keeps its value.                                               *)
C19_ZeroDeltaChangesNothing ==
    [][(DragMove /\ StepDelta(pointerX') = 0) =>
          UNCHANGED << items, lanes, draggingItem, dragType, dragStartX, zoomLevel,
                       editingItem, editingText, bound, view >>]_vars

\* the pointer is away from dragStartX by less than the listeners count as a day
C19_Witness ==
    /\ draggingItem # Null
    /\ bound.draggingItem # Null
    /\ bound.dragStartX = dragStartX
    /\ pointerX # dragStartX
    /\ StepDelta(pointerX) = 0

(* C20 as stated: every mousemove during a session, those of daysDelta 0     *)
(* included, sets dragStartX to the place of the pointer.                    *)
C20_Original ==
    [][DragMove => dragStartX' = pointerX']_vars

(* C20: a mousemove during a session whose daysDelta is not 0 sets           *)
(* dragStartX to the place of the pointer, also when the new start or end     *)
(* is rejected; a mousemove whose daysDelta is 0 leaves dragStartX alone.     *)
C20_LastXAdvancesOnDaySteps ==
    [][DragMove =>
          dragStartX' = IF StepDelta(pointerX') # 0 THEN pointerX' ELSE dragStartX]_vars

\* a step in mode start was rejected (the item is as loaded) and dragStartX
\* has moved on from the value the listeners hold
C20_Witness ==
    /\ tz = "UTC"
    /\ dragType = "start"
    /\ draggingItem # Null
    /\ bound.draggingItem = draggingItem
    /\ items = data
    /\ dragStartX # bound.dragStartX
    /\ dragStartX = pointerX

(* C21: every mousemove of a session computes its daysDelta against the      *)
(* dragStartX that the most recent mousemove has written, also when several   *)
(* mousemoves are delivered before the component is rendered again and its    *)
(* listeners are bound again; a pointer that is back where the last day step  *)
(* was counted adds no further day.                                          *)
C21_DeltaAgainstLatestLastX ==
    [][DragMove =>
          /\ StepDelta(pointerX') = daysDelta(pointerX' - dragStartX, bound.zoomLevel)
          /\ pointerX' = dragStartX => items' = items]_vars

====
